---- MODULE Spec2Model ----
(***************************************************************************)
(* gcloud-backup (src/gcloud-backup.go, the later variant, lines 187-435): *)
(* flag validation in init(), then main(): client bootstrap, registry      *)
(* driven dispatch of the exporters into one jsonData aggregate, JSON      *)
(* serialization and a single write to stdout.                             *)
(*                                                                         *)
(* A string is a sequence of symbols.  The symbols are the four registry   *)
(* names, one other word and the comma, so that strings.Split has real     *)
(* work to do: "firewalls,bogus" is <<"firewalls", ",", "bogus">> and the  *)
(* name "firewallsroutes" is the two-symbol token <<"firewalls","routes">>.*)
(***************************************************************************)
EXTENDS Integers, Sequences, FiniteSets, TLC

VARIABLES flags, config, service, export, output, stdout, stderr, pc, i,
          exitCode, calls

vars == <<flags, config, service, export, output, stdout, stderr, pc, i,
          exitCode, calls>>

(* ---------------------------------------------------------------- bounds *)

\* longest -service string, in symbols
MaxLen == 4
\* most records one list response (or one zone of an aggregated list) holds
MaxItems == 2

(* ------------------------------------------------------------- alphabet *)

Comma == ","
KnownWords == {"firewalls", "routes", "networks", "addresses"}
Symbols == KnownWords \cup {"bogus", Comma}

RECURSIVE StringsUpTo(_)
StringsUpTo(n) ==
  IF n = 0 THEN {<<>>}
  ELSE LET S == StringsUpTo(n - 1)
       IN S \cup {Append(s, c) : s \in {t \in S : Len(t) = n - 1}, c \in Symbols}

Zones == {"regions/us-east1", "regions/europe-west1"}

(* ------------------------------------------------------ Go value shapes *)

\* a Go slice: nil, or a (possibly empty) sequence of elements
NilSlice == [nil |-> TRUE, elems |-> <<>>]
Slice(s) == [nil |-> FALSE, elems |-> s]

\* a Go map: nil, or a (possibly empty) finite function
EmptyKV == [z \in {} |-> <<>>]
NilMap == [nil |-> TRUE, kv |-> EmptyKV]
MakeMap == [nil |-> FALSE, kv |-> EmptyKV]

\* the nil *jsonData, before main allocates the aggregate
NilPtr == [ptr |-> "nil"]

\* new(jsonData): every field holds its zero value
NewJsonData ==
  [Firewalls |-> NilSlice, Routes |-> NilSlice, Networks |-> NilSlice,
   Addresses |-> NilMap]

\* the n records of one resource kind, opaque and passed through
Records(kind, n) == [k \in 1..n |-> <<kind, k>>]

\* what svc.List(project).Do() returns: (list, err)
ListResponses(kind) ==
  {[err |-> TRUE, Items |-> NilSlice]}
    \cup {[err |-> FALSE, Items |-> NilSlice]}
    \cup {[err |-> FALSE, Items |-> Slice(Records(kind, n))] : n \in 0..MaxItems}

\* what svc.AggregatedList(project).Do() returns: Items maps a zone/region
\* to its scoped list, whose Addresses may be empty
ScopedLists == {[Addresses |-> Records("address", n)] : n \in 0..MaxItems}

AggregatedResponses ==
  {[err |-> TRUE, Items |-> EmptyKV]}
    \cup {[err |-> FALSE, Items |-> m] :
            m \in UNION {[Z -> ScopedLists] : Z \in SUBSET Zones}}

(* ------------------------------------------------------- pure functions *)

\* strings.Split(s, ","): the substrings between the commas, in order;
\* a string without a comma (the empty string too) is one substring
RECURSIVE Split(_)
Split(s) ==
  IF \A k \in 1..Len(s) : s[k] # Comma THEN <<s>>
  ELSE LET p == CHOOSE k \in 1..Len(s) :
                  s[k] = Comma /\ \A j \in 1..(k - 1) : s[j] # Comma
       IN <<SubSeq(s, 1, p - 1)>> \o Split(SubSeq(s, p + 1, Len(s)))

\* services.Export, as init() fills it: name -> exporter
servicesExport ==
  (<<"firewalls">> :> "exportFirewalls") @@ (<<"routes">> :> "exportRoutes")
    @@ (<<"networks">> :> "exportNetworks")
    @@ (<<"addresses">> :> "exportAddresses")

\* mutant: the struct tags carry no omitempty
isEmptyValue_noOmitEmpty(field, v) == FALSE

\* encoding/json's omitempty test: a nil or zero-length slice or map
isEmptyValue(field, v) ==
  IF field = "Addresses" THEN DOMAIN v.kv = {} ELSE Len(v.elems) = 0

\* the struct tags of jsonData, in field order
jsonTags ==
  << <<"Firewalls", "firewalls">>, <<"Routes", "routes">>,
     <<"Networks", "networks">>, <<"Addresses", "addresses">> >>

RECURSIVE encodeFields(_, _)
encodeFields(exp, k) ==
  IF k > Len(jsonTags) THEN <<>>
  ELSE LET f == jsonTags[k][1]
           rest == encodeFields(exp, k + 1)
       IN IF isEmptyValue(f, exp[f]) THEN rest
          ELSE <<[key |-> jsonTags[k][2],
                  value |-> IF f = "Addresses" THEN exp[f].kv ELSE exp[f].elems]>>
                 \o rest

\* json.MarshalIndent(v, prefix, indent): the document is its members, in
\* field order, and the indent it is laid out with
MarshalIndent(exp, prefix, indent) ==
  [indent |-> indent, members |-> encodeFields(exp, 1)]

\* json.Marshal(v): the same members in the compact layout
Marshal(exp) == [indent |-> "", members |-> encodeFields(exp, 1)]

(* ----------------------------------------------------------- init(), 260 *)

version == <<"v0.1.0">>

\* showUsage(s...): the optional error line, the usage text, os.Exit(1)
showUsage(s) ==
  (IF Len(s) > 0 /\ Len(s[1]) > 0 THEN << <<"Error", s[1]>> >> ELSE <<>>)
    \o << <<"Usage", <<>>>> >>

\* mutant: the empty -service string is not refused
checkService_neverFails(f) == <<>>

\* mutant: -import alone passes the action check, as -export does
checkAction_importAccepted(f) ==
  IF f.Import \/ f.Export
  THEN IF f.Import /\ f.Export
       THEN << <<"please select an action - export/import">> >>
       ELSE <<>>
  ELSE << <<"please select an action - export/import">> >>

\* each check of init(): <<>> when it passes, else what showUsage is given
checkService(f) ==
  IF f.Service = <<>> THEN << <<"please include a service">> >> ELSE <<>>

checkAccount(f) ==
  IF f.Account = "" THEN << <<"please specify a Google SDK user account">> >>
  ELSE <<>>

checkProject(f) ==
  IF f.Project = "" THEN << <<"please specify a Google SDK project">> >>
  ELSE <<>>

checkAction(f) ==
  IF f.Import \/ f.Export
  THEN IF f.Import /\ f.Export
       THEN << <<"please select an action - export/import">> >>
       ELSE IF f.Export THEN <<>>
       ELSE << <<"import action not implmented">> >>
  ELSE << <<"please select an action - export/import">> >>

\* the statement of init() at which the process exits: 1 -version, 2 -help,
\* 3 service, 4 account, 5 project, 6 action; 7 when init() returns
exitStage(f) ==
  IF f.Version THEN 1
  ELSE IF f.Help THEN 2
  ELSE IF checkService(f) # <<>> THEN 3
  ELSE IF checkAccount(f) # <<>> THEN 4
  ELSE IF checkProject(f) # <<>> THEN 5
  ELSE IF checkAction(f) # <<>> THEN 6
  ELSE 7

\* what init() has printed to stderr when it exits or returns
initStderr(f) ==
  LET st == exitStage(f)
  IN IF st = 1 THEN << <<"Version", version>> >>
     ELSE IF st = 2 THEN showUsage(<<>>)
     ELSE IF st = 3 THEN showUsage(checkService(f))
     ELSE IF st = 4 THEN showUsage(checkAccount(f))
     ELSE IF st = 5 THEN showUsage(checkProject(f))
     ELSE IF st = 6 THEN showUsage(checkAction(f))
     ELSE <<>>

\* config as init() leaves it: a field is set once its check has passed
initConfig(f) ==
  LET st == exitStage(f)
  IN [Service |-> IF st > 3 THEN Split(f.Service) ELSE <<>>,
      Account |-> IF st > 4 THEN f.Account ELSE "",
      Project |-> IF st > 5 THEN f.Project ELSE "",
      Import |-> st >= 6 /\ f.Import /\ ~f.Export,
      Export |-> st >= 6 /\ f.Export /\ ~f.Import]

Flags ==
  [Version : BOOLEAN, Help : BOOLEAN, Import : BOOLEAN, Export : BOOLEAN,
   Readable : BOOLEAN, Service : StringsUpTo(MaxLen),
   Account : {"", "user"}, Project : {"", "proj"}]

\* the process after flag.Parse(), at the first check of init()
Init ==
  /\ flags \in Flags
  /\ config = [Service |-> <<>>, Account |-> "", Project |-> "",
               Import |-> FALSE, Export |-> FALSE]
  /\ service = "nil"
  /\ export = NilPtr
  /\ output = <<>>
  /\ stdout = <<>>
  /\ stderr = <<>>
  /\ pc = "init"
  /\ i = 1
  /\ exitCode = -1
  /\ calls = <<>>

init ==
  /\ pc = "init"
  /\ config' = initConfig(flags)
  /\ stderr' = stderr \o initStderr(flags)
  /\ IF exitStage(flags) < 7
     THEN pc' = "exited" /\ exitCode' = 1
     ELSE pc' = "main" /\ exitCode' = exitCode
  /\ UNCHANGED <<flags, service, export, output, stdout, i, calls>>

(* -------------------------------------------------- exporters, 352-403 *)

\* what one exporter call leaves behind: the aggregate, whether log.Fatal
\* ended the process, and the fields of the aggregate it assigned
Returned(exp, wrote) == [exp |-> exp, fatal |-> FALSE, wrote |-> wrote]
Fatal(exp, wrote) == [exp |-> exp, fatal |-> TRUE, wrote |-> wrote]

\* mutant: the list is fetched and its items are never stored
exportNetworks_dropsResult(exp, resp) ==
  IF service # "nil"
  THEN IF resp.err THEN Fatal(exp, {}) ELSE Returned(exp, {})
  ELSE Returned(exp, {})

exportNetworks(exp, resp) ==
  IF service # "nil"
  THEN IF resp.err THEN Fatal(exp, {})
       ELSE Returned([exp EXCEPT !.Networks = resp.Items], {"Networks"})
  ELSE Returned(exp, {})

\* mutant: the range loop stores every zone, the empty ones too
nonEmptyScopes_noFilter(Items) ==
  [z \in DOMAIN Items |-> Items[z].Addresses]

\* the range loop over list.Items: only the zones with len(Addresses) > 0
nonEmptyScopes(Items) ==
  [z \in {k \in DOMAIN Items : Len(Items[k].Addresses) > 0} |->
     Items[z].Addresses]

\* mutant: the error is logged with log.Print and the exporter returns
exportAddresses_ignoresErr(exp, resp) ==
  IF service # "nil"
  THEN LET made == [exp EXCEPT !.Addresses = MakeMap]
       IN IF resp.err THEN Returned(made, {"Addresses"})
          ELSE Returned([made EXCEPT !.Addresses.kv =
                           [z \in {k \in DOMAIN resp.Items :
                                     Len(resp.Items[k].Addresses) > 0} |->
                              resp.Items[z].Addresses]],
                        {"Addresses"})
  ELSE Returned(exp, {})

exportAddresses(exp, resp) ==
  IF service # "nil"
  THEN LET made == [exp EXCEPT !.Addresses = MakeMap]
       IN IF resp.err THEN Fatal(made, {"Addresses"})
          ELSE Returned([made EXCEPT !.Addresses.kv = nonEmptyScopes(resp.Items)],
                        {"Addresses"})
  ELSE Returned(exp, {})

\* mutant: the items are appended to the field instead of replacing it
exportFirewalls_appends(exp, resp) ==
  IF service # "nil"
  THEN IF resp.err THEN Fatal(exp, {})
       ELSE Returned([exp EXCEPT !.Firewalls =
                        [nil |-> exp.Firewalls.nil /\ resp.Items.nil,
                         elems |-> exp.Firewalls.elems \o resp.Items.elems]],
                     {"Firewalls"})
  ELSE Returned(exp, {})

exportFirewalls(exp, resp) ==
  IF service # "nil"
  THEN IF resp.err THEN Fatal(exp, {})
       ELSE Returned([exp EXCEPT !.Firewalls = resp.Items], {"Firewalls"})
  ELSE Returned(exp, {})

\* mutant: a failed fetch is not fatal, the exporter just returns
exportRoutes_ignoresErr(exp, resp) ==
  IF service # "nil"
  THEN IF resp.err THEN Returned(exp, {})
       ELSE Returned([exp EXCEPT !.Routes = resp.Items], {"Routes"})
  ELSE Returned(exp, {})

\* mutant: the routes are stored in the firewalls field
exportRoutes_wrongField(exp, resp) ==
  IF service # "nil"
  THEN IF resp.err THEN Fatal(exp, {})
       ELSE Returned([exp EXCEPT !.Firewalls = resp.Items], {"Firewalls"})
  ELSE Returned(exp, {})

exportRoutes(exp, resp) ==
  IF service # "nil"
  THEN IF resp.err THEN Fatal(exp, {})
       ELSE Returned([exp EXCEPT !.Routes = resp.Items], {"Routes"})
  ELSE Returned(exp, {})

(* ------------------------------------------------------- main(), 405-435 *)

\* log.Fatal(err): the line on stderr, then os.Exit(1)
logFatal(what) ==
  /\ stderr' = Append(stderr, <<"fatal", <<what>>>>)
  /\ pc' = "exited"
  /\ exitCode' = 1

\* lines 406-409 and 433-434: the banner, then the branch on the action
main ==
  /\ pc = "main"
  /\ IF config.Export
     THEN /\ stderr' = stderr \o << <<"Google cloud backup", version>>,
                                   <<"Starting export process", <<>>>> >>
          /\ export' = NewJsonData
          /\ pc' = "createServiceFromSDK"
          /\ exitCode' = exitCode
     ELSE /\ stderr' = stderr \o
               (<< <<"Google cloud backup", version>> >>
                  \o IF config.Import
                     THEN << <<"Starting import process", <<>>>> >>
                     ELSE <<>>)
          /\ export' = export
          /\ pc' = "done"
          /\ exitCode' = 0
  /\ UNCHANGED <<flags, config, service, output, stdout, i, calls>>

\* lines 338-350: the SDK configuration of the account is found or not
createServiceFromSDK ==
  /\ pc = "createServiceFromSDK"
  /\ \E ok \in BOOLEAN :
       IF ok
       THEN /\ stderr' = Append(stderr, <<"Creating new client", <<>>>>)
            /\ service' = "client"
            /\ pc' = "loop"
            /\ exitCode' = exitCode
       ELSE /\ stderr' = stderr \o << <<"Creating new client", <<>>>>,
                                     <<"fatal", <<"NewSDKConfig">>>> >>
            /\ service' = service
            /\ pc' = "exited"
            /\ exitCode' = 1
  /\ UNCHANGED <<flags, config, export, output, stdout, i, calls>>

\* line 411-412: the range loop stands at a name the registry holds for fn
Dispatch(fn) ==
  /\ pc = "loop"
  /\ i <= Len(config.Service)
  /\ config.Service[i] \in DOMAIN servicesExport
  /\ servicesExport[config.Service[i]] = fn

\* line 413: services.Export[svc](export) with the API answering resp
Invoke(fn, r, resp) ==
  /\ export' = r.exp
  /\ calls' = Append(calls, [fn |-> fn, resp |-> resp, wrote |-> r.wrote])
  /\ IF r.fatal
     THEN logFatal("Do") /\ i' = i
     ELSE /\ i' = i + 1
          /\ UNCHANGED <<stderr, pc, exitCode>>
  /\ UNCHANGED <<flags, config, service, output, stdout>>

callFirewalls ==
  /\ Dispatch("exportFirewalls")
  /\ \E resp \in ListResponses("firewall") :
       Invoke("exportFirewalls", exportFirewalls(export, resp), resp)

callRoutes ==
  /\ Dispatch("exportRoutes")
  /\ \E resp \in ListResponses("route") :
       Invoke("exportRoutes", exportRoutes(export, resp), resp)

callNetworks ==
  /\ Dispatch("exportNetworks")
  /\ \E resp \in ListResponses("network") :
       Invoke("exportNetworks", exportNetworks(export, resp), resp)

callAddresses ==
  /\ Dispatch("exportAddresses")
  /\ \E resp \in AggregatedResponses :
       Invoke("exportAddresses", exportAddresses(export, resp), resp)

\* mutant: an unknown name is fatal (log.Fatalf for log.Printf)
invalidService_fatal ==
  /\ pc = "loop"
  /\ i <= Len(config.Service)
  /\ config.Service[i] \notin DOMAIN servicesExport
  /\ stderr' = Append(stderr, <<"Error: invalid service", config.Service[i]>>)
  /\ pc' = "exited"
  /\ exitCode' = 1
  /\ UNCHANGED <<flags, config, service, export, output, stdout, i, calls>>

\* lines 414-416: a name the registry does not hold
invalidService ==
  /\ pc = "loop"
  /\ i <= Len(config.Service)
  /\ config.Service[i] \notin DOMAIN servicesExport
  /\ stderr' = Append(stderr, <<"Error: invalid service", config.Service[i]>>)
  /\ i' = i + 1
  /\ UNCHANGED <<flags, config, service, export, output, stdout, pc,
                 exitCode, calls>>

\* lines 419-431: the loop is over; output = the encoded aggregate
serialize ==
  /\ pc = "loop"
  /\ i > Len(config.Service)
  /\ output' = <<IF flags.Readable THEN MarshalIndent(export, "", "  ")
                 ELSE Marshal(export)>>
  /\ pc' = "write"
  /\ UNCHANGED <<flags, config, service, export, stdout, stderr, i,
                 exitCode, calls>>

\* line 432, then main returns
stdoutWrite ==
  /\ pc = "write"
  /\ stdout' = stdout \o output
  /\ pc' = "done"
  /\ exitCode' = 0
  /\ UNCHANGED <<flags, config, service, export, output, stderr, i, calls>>

Next ==
  \/ init
  \/ main
  \/ createServiceFromSDK
  \/ callFirewalls
  \/ callRoutes
  \/ callNetworks
  \/ callAddresses
  \/ invalidService
  \/ serialize
  \/ stdoutWrite

Spec == Init /\ [][Next]_vars

(* ------------------------------------------------ vocabulary of claims *)

Exporters == {"exportFirewalls", "exportRoutes", "exportNetworks", "exportAddresses"}
Fields == {"Firewalls", "Routes", "Networks", "Addresses"}

\* the jsonData field an exporter is meant to fill
FieldOf ==
  ("exportFirewalls" :> "Firewalls") @@ ("exportRoutes" :> "Routes")
    @@ ("exportNetworks" :> "Networks") @@ ("exportAddresses" :> "Addresses")

\* the registry holds the name
Known(svc) == svc \in DOMAIN servicesExport

Requests == 1..Len(config.Service)

\* the export loop has been entered (the client exists)
InLoop == service = "client" /\ pc \in {"loop", "write", "done", "exited"}

\* log.Fatal inside an exporter ended the process at entry i
AbortedInLoop == service = "client" /\ pc = "exited"

\* the loop is over and the aggregate is what gets serialized
SerializationTime ==
  \/ pc = "loop" /\ i > Len(config.Service)
  \/ pc = "write"
  \/ pc = "done" /\ export # NilPtr

\* the request entries the loop has dispatched so far
DispatchedCount ==
  IF AbortedInLoop THEN i
  ELSE IF i - 1 < Len(config.Service) THEN i - 1 ELSE Len(config.Service)

Dispatched == 1..DispatchedCount

\* the dispatched names the registry holds, in request order
DispatchedKnown == SelectSeq(SubSeq(config.Service, 1, DispatchedCount), Known)

\* the calls of exporter fn, as indices into the call history
CallsOf(fn) == {k \in 1..Len(calls) : calls[k].fn = fn}

LastCallOf(fn) == calls[CHOOSE k \in CallsOf(fn) : \A j \in CallsOf(fn) : j <= k]

\* a response that carries at least one record
HasRecords(fn, resp) ==
  IF fn = "exportAddresses"
  THEN \E z \in DOMAIN resp.Items : Len(resp.Items[z].Addresses) > 0
  ELSE Len(resp.Items.elems) > 0

\* the field holds at least one record: what the serializer emits
Populated(f) == ~isEmptyValue(f, export[f])

InvalidLines == SelectSeq(stderr, LAMBDA l : l[1] = "Error: invalid service")

RequestsOf(fn) == {j \in Requests : Known(config.Service[j]) /\ servicesExport[config.Service[j]] = fn}

(* ---------------------------------------------------------------- C1 *)

\* C1: in an export run an unknown name only adds an 'invalid service' line
\* to the log: the lines logged are exactly the unknown names dispatched so
\* far, in order; the process never exits at an unknown name (an exit inside
\* the loop is at a known name whose fetch failed); every known name
\* dispatched, also one after an unknown name, has had its exporter invoked;
\* and a run that ends normally has serialized and written to stdout.
C1_UnknownNameIsSkipped ==
  InLoop =>
    /\ [k \in 1..Len(InvalidLines) |-> InvalidLines[k][2]]
         = SelectSeq(SubSeq(config.Service, 1, DispatchedCount),
                     LAMBDA n : ~Known(n))
    /\ AbortedInLoop =>
         /\ i \in Requests
         /\ Known(config.Service[i])
         /\ calls # <<>>
         /\ calls[Len(calls)].resp.err
    /\ [k \in 1..Len(calls) |-> calls[k].fn]
         = [k \in 1..Len(DispatchedKnown) |-> servicesExport[DispatchedKnown[k]]]
    /\ pc = "done" =>
         /\ DispatchedCount = Len(config.Service)
         /\ Len(output) = 1
         /\ stdout = output
         /\ exitCode = 0

\* an unknown name stood before a known one, and the run wrote its document
C1_Witness ==
  /\ pc = "done"
  /\ stdout # <<>>
  /\ \E j, k \in Requests :
       /\ j < k
       /\ ~Known(config.Service[j])
       /\ Known(config.Service[k])
       /\ CallsOf(servicesExport[config.Service[k]]) # {}
       /\ Populated(FieldOf[servicesExport[config.Service[k]]])
  /\ Len(InvalidLines) >= 1

(* ---------------------------------------------------------------- C2 *)

\* C2: a failed API call of any exporter ends the process there with exit
\* status 1: the failed call is the last call ever made, it is the call of
\* the entry the loop stands at, no output is serialized and nothing is on
\* stdout.
C2_FetchErrorAborts ==
  \A k \in 1..Len(calls) :
    calls[k].resp.err =>
      /\ k = Len(calls)
      /\ pc = "exited"
      /\ exitCode = 1
      /\ i \in Requests
      /\ Known(config.Service[i])
      /\ servicesExport[config.Service[i]] = calls[k].fn
      /\ Len(calls) = Len(DispatchedKnown)
      /\ output = <<>>
      /\ stdout = <<>>

\* a fetch failed with a known name still to come in the request list
C2_Witness ==
  /\ calls # <<>>
  /\ calls[Len(calls)].resp.err
  /\ pc = "exited"
  /\ \E j \in Requests : j > i /\ Known(config.Service[j])

(* ---------------------------------------------------------------- C3 *)

UsageViolation(f) ==
  \/ f.Service = <<>>
  \/ f.Account = ""
  \/ f.Project = ""
  \/ ~f.Export /\ ~f.Import
  \/ f.Export /\ f.Import

MainBanner == SelectSeq(stderr, LAMBDA l : l[1] = "Google cloud backup")

\* C3: with any usage violation the process exits with status 1 inside
\* init(): main never starts (its banner is never logged), no client is
\* created, no exporter is called and nothing reaches stdout.
C3_UsageViolationExitsInInit ==
  (UsageViolation(flags) /\ pc # "init") =>
    /\ pc = "exited"
    /\ exitCode = 1
    /\ stderr # <<>>
    /\ MainBanner = <<>>
    /\ service = "nil"
    /\ export = NilPtr
    /\ calls = <<>>
    /\ output = <<>>
    /\ stdout = <<>>

\* both -export and -import, everything else valid: exited with the usage
C3_Witness ==
  /\ pc = "exited"
  /\ flags.Export /\ flags.Import
  /\ ~flags.Version /\ ~flags.Help
  /\ flags.Service # <<>> /\ flags.Account # "" /\ flags.Project # ""
  /\ stderr = showUsage(<< <<"please select an action - export/import">> >>)

(* ---------------------------------------------------------------- C4 *)

ImportAlone(f) ==
  /\ f.Import /\ ~f.Export
  /\ ~f.Version /\ ~f.Help
  /\ f.Service # <<>> /\ f.Account # "" /\ f.Project # ""

\* C4 as stated: -import alone with valid flags is accepted, main is reached
\* and nothing else happens.
C4_ImportReachesMain ==
  (ImportAlone(flags) /\ pc # "init") =>
    /\ pc \in {"main", "done"}
    /\ service = "nil"
    /\ calls = <<>>
    /\ stdout = <<>>

\* C4, amended: -import alone with valid flags is rejected in init(): the
\* error 'import action not implmented' and the usage go to stderr, the
\* exit status is 1, main never starts, and there is no client bootstrap,
\* no exporter call and no write to stdout.
C4_ImportRejectedInInit ==
  (ImportAlone(flags) /\ pc # "init") =>
    /\ pc = "exited"
    /\ exitCode = 1
    /\ stderr = showUsage(<< <<"import action not implmented">> >>)
    /\ MainBanner = <<>>
    /\ config.Import
    /\ service = "nil"
    /\ export = NilPtr
    /\ calls = <<>>
    /\ stdout = <<>>

C4_Witness == ImportAlone(flags) /\ pc = "exited" /\ exitCode = 1

(* ---------------------------------------------------------------- C5 *)

AllKnown == \A j \in Requests : Known(config.Service[j])

RequestedFields ==
  {FieldOf[servicesExport[config.Service[j]]] :
     j \in {r \in Requests : Known(config.Service[r])}}

\* C5 as stated: with only known names requested and every fetch succeeding,
\* the populated fields at serialization time are exactly the fields of the
\* distinct requested names.
C5_OnePopulatedFieldPerName ==
  (SerializationTime /\ AllKnown) =>
    {f \in Fields : Populated(f)} = RequestedFields

\* C5, amended: with only known names requested and every fetch succeeding,
\* a field is populated at serialization time exactly when its name is
\* requested and the last fetch of that kind returned at least one record
\* (for addresses: a zone/region with a non-empty list).  The populated
\* fields are a subset of the distinct requested names, one field per name,
\* and depend on the request list only through the set of its names.
C5_PopulatedIffRequestedAndNonEmpty ==
  (SerializationTime /\ AllKnown) =>
    /\ \A fn \in Exporters :
         Populated(FieldOf[fn]) <=>
           /\ RequestsOf(fn) # {}
           /\ CallsOf(fn) # {}
           /\ HasRecords(fn, LastCallOf(fn).resp)
    /\ {f \in Fields : Populated(f)} \subseteq RequestedFields
    /\ \A k \in 1..Len(calls) : ~calls[k].resp.err

\* two distinct known names, both fetched with records, both populated
C5_Witness ==
  /\ SerializationTime
  /\ AllKnown
  /\ Cardinality(RequestedFields) = 2
  /\ {f \in Fields : Populated(f)} = RequestedFields

(* ---------------------------------------------------------------- C6 *)

\* the exporter of request entry j ran and its fetch succeeded
Exported(j) ==
  /\ Known(config.Service[j])
  /\ \E k \in CallsOf(servicesExport[config.Service[j]]) : ~calls[k].resp.err

\* C6 as stated: whenever anything is on stdout, every name of the request
\* list was exported into the aggregate; otherwise nothing was written.
C6_OutputMeansEveryNameExported ==
  /\ stdout # <<>> => \A j \in Requests : Exported(j)
  /\ pc = "exited" => stdout = <<>>

\* C6, amended: whenever anything is on stdout, every known name of the
\* request list was exported into the aggregate (its exporter ran, once per
\* entry, and no fetch failed), unknown names having been skipped with a
\* logged line; stdout then holds the one serialized aggregate.  A process
\* that aborted has written nothing to stdout.
C6_OutputMeansEveryKnownNameExported ==
  /\ stdout # <<>> =>
       /\ \A j \in Requests : Known(config.Service[j]) => Exported(j)
       /\ \A k \in 1..Len(calls) : ~calls[k].resp.err
       /\ Len(calls) = Len(SelectSeq(config.Service, Known))
       /\ Len(InvalidLines) = Len(config.Service) - Len(calls)
       /\ stdout = <<IF flags.Readable THEN MarshalIndent(export, "", "  ")
                     ELSE Marshal(export)>>
  /\ pc = "exited" => stdout = <<>> /\ exitCode = 1

\* a document was written after two exporters ran
C6_Witness ==
  /\ stdout # <<>>
  /\ Len(calls) = 2
  /\ stdout[1].members # <<>>

(* ---------------------------------------------------------------- C7 *)

Keys(doc) == {doc.members[k].key : k \in 1..Len(doc.members)}

RequestedKeys == {config.Service[j][1] : j \in {r \in Requests : Known(config.Service[r])}}

\* C7: in the serialized document, readable or compact, a resource kind's
\* key is present only if the kind was requested; every member present
\* holds at least one record (no null, no empty list or map).
C7_FieldOmission ==
  \A n \in 1..Len(output) :
    /\ Keys(output[n]) \subseteq RequestedKeys
    /\ \A k \in 1..Len(output[n].members) :
         LET m == output[n].members[k]
         IN IF m.key = "addresses" THEN DOMAIN m.value # {}
            ELSE Len(m.value) > 0
    /\ output[n].indent = (IF flags.Readable THEN "  " ELSE "")

\* only firewalls requested: the document has the firewalls key alone
C7_Witness ==
  /\ output # <<>>
  /\ RequestedKeys = {"firewalls"}
  /\ Keys(output[1]) = {"firewalls"}
  /\ flags.Readable

(* ---------------------------------------------------------------- C8 *)

MutationsOf(f) == {k \in 1..Len(calls) : f \in calls[k].wrote}

\* C8 as stated: each field of the aggregate is mutated at most once per
\* requested resource kind.
C8_FieldMutatedAtMostOncePerKind ==
  \A f \in Fields : Cardinality(MutationsOf(f)) <= 1

\* the state half of the lifecycle
C8_LifecycleState ==
  /\ pc \in {"init", "main"} => export = NilPtr /\ calls = <<>>
  /\ pc = "createServiceFromSDK" => export = NewJsonData /\ calls = <<>>
  /\ \A k \in 1..Len(calls) : calls[k].wrote \subseteq {FieldOf[calls[k].fn]}
  /\ \A fn \in Exporters :
       /\ MutationsOf(FieldOf[fn]) \subseteq CallsOf(fn)
       /\ Cardinality(CallsOf(fn)) <= Cardinality(RequestsOf(fn))
  /\ output # <<>> =>
       /\ Len(output) = 1
       /\ i > Len(config.Service)
       /\ Len(calls) = Len(SelectSeq(config.Service, Known))
       /\ output[1] = (IF flags.Readable THEN MarshalIndent(export, "", "  ")
                       ELSE Marshal(export))

\* the step half: a step that changes a field of the aggregate is one call
\* of that field's exporter, and nothing changes the aggregate, the call
\* history or the output once the output is serialized
C8_LifecycleStep ==
  /\ (export # NilPtr /\ export' # export) =>
       /\ Len(calls') = Len(calls) + 1
       /\ \A f \in Fields :
            export'[f] # export[f] => FieldOf[calls'[Len(calls')].fn] = f
  /\ output # <<>> =>
       output' = output /\ export' = export /\ calls' = calls

\* C8, amended: the aggregate is created empty before any exporter runs;
\* each field is mutated only by its own kind's exporter, at most once per
\* entry of the request list that names the kind (so k times for a kind
\* listed k times); and the aggregate is serialized exactly once, after the
\* last exporter invocation.
C8_Lifecycle == [](C8_LifecycleState) /\ [][C8_LifecycleStep]_vars

\* one kind listed twice, its field mutated twice, then serialized
C8_Witness ==
  /\ output # <<>>
  /\ \E f \in Fields : Cardinality(MutationsOf(f)) = 2

(* ---------------------------------------------------------------- C9 *)

\* the aggregate still holds what the last call of exportAddresses stored
AddressesCurrent ==
  /\ export # NilPtr
  /\ CallsOf("exportAddresses") # {}
  /\ ~LastCallOf("exportAddresses").resp.err

\* C9: after a successful addresses export the map has a key for a
\* zone/region exactly when the response holds a non-empty address list for
\* it, the value under the key is that list, and no key holds an empty list.
C9_AddressesOmitEmptyZones ==
  AddressesCurrent =>
    LET Items == LastCallOf("exportAddresses").resp.Items
        kv == export.Addresses.kv
    IN /\ ~export.Addresses.nil
       /\ \A z \in Zones :
            z \in DOMAIN kv <=> (z \in DOMAIN Items /\ Items[z].Addresses # <<>>)
       /\ \A z \in DOMAIN kv : kv[z] = Items[z].Addresses /\ kv[z] # <<>>

\* one zone with no address and one with two: the map has exactly one key
C9_Witness ==
  /\ AddressesCurrent
  /\ LET Items == LastCallOf("exportAddresses").resp.Items
     IN /\ DOMAIN Items = Zones
        /\ \E z \in Zones : Len(Items[z].Addresses) = 0
        /\ \E z \in Zones : Len(Items[z].Addresses) = 2
  /\ Cardinality(DOMAIN export.Addresses.kv) = 1

(* --------------------------------------------------------------- C10 *)

\* the fixed names of the registry and the exporter each one stands for
ExporterNamed ==
  (<<"firewalls">> :> "exportFirewalls") @@ (<<"routes">> :> "exportRoutes")
    @@ (<<"networks">> :> "exportNetworks")
    @@ (<<"addresses">> :> "exportAddresses")

\* what a successful call stores in its field
Stored(c) ==
  IF c.fn = "exportAddresses"
  THEN [nil |-> FALSE,
        kv |-> [z \in {k \in DOMAIN c.resp.Items : c.resp.Items[k].Addresses # <<>>}
                  |-> c.resp.Items[z].Addresses]]
  ELSE c.resp.Items

\* C10: the exporter invocations are, in order, the dispatched entries of
\* the request list with the unknown names removed (one invocation per
\* entry, so k invocations for a name listed k times), and a field holds the
\* result of the last invocation of its exporter.
C10_SequentialInRequestOrder ==
  InLoop =>
    /\ [k \in 1..Len(calls) |-> calls[k].fn]
         = [k \in 1..Len(DispatchedKnown) |-> ExporterNamed[DispatchedKnown[k]]]
    /\ \A fn \in Exporters :
         (CallsOf(fn) # {} /\ ~LastCallOf(fn).resp.err) =>
           export[FieldOf[fn]] = Stored(LastCallOf(fn))
    /\ \A fn \in Exporters : CallsOf(fn) = {} => export[FieldOf[fn]] = NewJsonData[FieldOf[fn]]

\* one name listed twice with different answers: the last answer is kept
C10_Witness ==
  /\ pc = "done"
  /\ \E fn \in Exporters \ {"exportAddresses"} :
       /\ Cardinality(CallsOf(fn)) = 2
       /\ \E j, k \in CallsOf(fn) :
            j < k /\ calls[j].resp.Items # calls[k].resp.Items
                  /\ export[FieldOf[fn]] = calls[k].resp.Items

====
